---- MODULE Spec2Model ----
(***************************************************************************)
(* Model of the candidate-blending service (greenearth-social/api):       *)
(* the generator registry (app/lib/candidates), the allocation, dedup and  *)
(* infill logic of POST /candidates/generate (app/routers/candidates.py).  *)
(***************************************************************************)
EXTENDS Integers, Sequences, FiniteSets, TLC

VARIABLES
    registry,        \* _generators: the names registered, each with its generator
    request,         \* the JSON body of the request as it was received
    pc,              \* position of the candidates_generate coroutine
    payload,         \* the validated CandidateGenerateRequest being served
    counts,          \* counts = _allocate_counts(payload.generators, num_candidates)
    idx,             \* position of the for-loop over zip(generators, counts)
    all_candidates,  \* all_candidates, extended after every primary generator
    deduped,         \* deduped, set after the loop and again after the infill
    response,        \* what the handler answered: status and candidates
    trace            \* history: registry lookups, generate() calls, backend
                     \* searches and their outcomes, in the order they happened

vars == <<registry, request, pc, payload, counts, idx, all_candidates, deduped,
          response, trace>>

(***************************************************************************)
(* Bounds of the model.                                                    *)
(***************************************************************************)
MaxSpecs == 2        \* longest generator list of a request
MaxTotal == 2        \* largest num_candidates of a request
MaxHits == 2         \* most hits one backend search answers with
MaxAllocSpecs == 3   \* longest spec list given to _allocate_counts alone
MaxAllocTotal == 5   \* largest total given to _allocate_counts alone

(***************************************************************************)
(* Natural numbers of any size, as sequences of limbs in base 2^15, the    *)
(* least significant limb first and no zero limb at the top (0 is <<>>).   *)
(* They carry the 53-bit significands of floats, which no machine integer  *)
(* of the checker holds.                                                   *)
(***************************************************************************)
LimbBits == 15
LimbBase == 2^LimbBits

Max2(a, b) == IF a >= b THEN a ELSE b
Min2(a, b) == IF a <= b THEN a ELSE b

RECURSIVE BNorm(_)
BNorm(x) == IF x # <<>> /\ x[Len(x)] = 0 THEN BNorm(SubSeq(x, 1, Len(x) - 1)) ELSE x

RECURSIVE BFromInt(_)
BFromInt(n) == IF n = 0 THEN <<>> ELSE <<n % LimbBase>> \o BFromInt(n \div LimbBase)

RECURSIVE BToInt(_)
BToInt(x) == IF x = <<>> THEN 0 ELSE Head(x) + LimbBase * BToInt(Tail(x))

\* x * n + carry, for 0 <= n < 2^15
RECURSIVE BMulSmall(_, _, _)
BMulSmall(x, n, carry) ==
    IF x = <<>> THEN BFromInt(carry)
    ELSE <<(Head(x) * n + carry) % LimbBase>>
         \o BMulSmall(Tail(x), n, (Head(x) * n + carry) \div LimbBase)

\* quotient limbs (not normalised) and remainder of x / d, for 0 < d < 2^15
RECURSIVE BDivSmall(_, _)
BDivSmall(x, d) ==
    IF x = <<>> THEN [q |-> <<>>, r |-> 0]
    ELSE LET hi == BDivSmall(Tail(x), d)
             t == hi.r * LimbBase + Head(x)
         IN  [q |-> <<t \div d>> \o hi.q, r |-> t % d]

RECURSIVE BAdd(_, _, _)
BAdd(x, y, carry) ==
    IF x = <<>> /\ y = <<>> THEN BFromInt(carry)
    ELSE LET a == IF x = <<>> THEN 0 ELSE Head(x)
             b == IF y = <<>> THEN 0 ELSE Head(y)
         IN  <<(a + b + carry) % LimbBase>>
             \o BAdd(IF x = <<>> THEN x ELSE Tail(x), IF y = <<>> THEN y ELSE Tail(y),
                     (a + b + carry) \div LimbBase)

IntBitLen(n) == CHOOSE k \in 0..LimbBits : n < 2^k /\ (k = 0 \/ n >= 2^(k - 1))

BBitLen(x) == IF x = <<>> THEN 0 ELSE LimbBits * (Len(x) - 1) + IntBitLen(x[Len(x)])

\* bit k of x (bit 0 is the lowest)
BBit(x, k) ==
    IF k \div LimbBits + 1 > Len(x) THEN 0
    ELSE (x[k \div LimbBits + 1] \div 2^(k % LimbBits)) % 2

\* x * 2^k
BShl(x, k) ==
    IF x = <<>> THEN <<>>
    ELSE [i \in 1..(k \div LimbBits) |-> 0] \o BMulSmall(x, 2^(k % LimbBits), 0)

\* x \div 2^k
BShr(x, k) ==
    IF k \div LimbBits >= Len(x) THEN <<>>
    ELSE BNorm(BDivSmall(SubSeq(x, k \div LimbBits + 1, Len(x)), 2^(k % LimbBits)).q)

\* x % 2^k
BMod2k(x, k) ==
    IF k \div LimbBits >= Len(x) THEN x
    ELSE BNorm(SubSeq(x, 1, k \div LimbBits)
               \o <<x[k \div LimbBits + 1] % 2^(k % LimbBits)>>)

BLess(x, y) ==
    IF Len(x) # Len(y) THEN Len(x) < Len(y)
    ELSE \E i \in 1..Len(x) :
            x[i] < y[i] /\ \A j \in (i + 1)..Len(x) : x[j] = y[j]

\* the number of zero bits at the low end of x # 0
BTrailZeros(x) ==
    CHOOSE k \in 0..(LimbBits * Len(x)) :
        BBit(x, k) = 1 /\ \A j \in 0..(k - 1) : BBit(x, j) = 0

(***************************************************************************)
(* Python floats (IEEE-754 binary64), non-negative values only: weights    *)
(* are > 0 and totals >= 0.  A finite value is man * 2^exp with man an odd *)
(* natural number, so each value has one representation; zero has man 0.   *)
(***************************************************************************)
MantBits == 53       \* significand precision of a double
MaxTop == 1024       \* finite doubles are < 2^1024
MinExp == -1074      \* the smallest subnormal is 2^-1074
DivBits == 75        \* fractional quotient bits produced before rounding

FZero == [inf |-> FALSE, man |-> <<>>, exp |-> 0]
FInf == [inf |-> TRUE, man |-> <<>>, exp |-> 0]

\* the one representation of x * 2^e, infinity from 2^1024 on
Canon(x, e) ==
    IF x = <<>> THEN FZero
    ELSE IF e + BBitLen(x) > MaxTop THEN FInf
    ELSE [inf |-> FALSE, man |-> BShr(x, BTrailZeros(x)), exp |-> e + BTrailZeros(x)]

\* the double nearest to x * 2^e (+ something below the last bit when
\* sticky), ties to even, with gradual underflow and overflow to infinity
FRound(x, e, sticky) ==
    LET L == BBitLen(x)
        low == Max2(e + L - MantBits, MinExp)   \* exponent of the last kept bit
        d == low - e                            \* bits to drop
    IN  IF d <= 0 THEN Canon(x, e)
        ELSE LET kept == BShr(x, d)
                 guard == BBit(x, d - 1)
                 rest == sticky \/ BMod2k(x, d - 1) # <<>>
                 up == guard = 1 /\ (rest \/ BBit(kept, 0) = 1)
             IN  Canon(IF up THEN BAdd(kept, <<1>>, 0) ELSE kept, low)

FTop(a) == a.exp + BBitLen(a.man)   \* a finite a # 0 lies in [2^(top-1), 2^top)

\* the float of a small integer, and of man * 2^exp
FFromInt(n) == FRound(BFromInt(n), 0, FALSE)
FScaled(man, e) == FRound(BFromInt(man), e, FALSE)

\* a + b
FAdd(a, b) ==
    IF a.inf \/ b.inf THEN FInf
    ELSE IF a.man = <<>> THEN b
    ELSE IF b.man = <<>> THEN a
    ELSE IF FTop(b) + MantBits + 2 <= FTop(a) THEN a   \* b is below a's guard bit
    ELSE IF FTop(a) + MantBits + 2 <= FTop(b) THEN b
    ELSE LET lo == Min2(a.exp, b.exp)
         IN  FRound(BAdd(BShl(a.man, a.exp - lo), BShl(b.man, b.exp - lo), 0),
                    lo, FALSE)

\* a / b for finite a and b > 0 whose significand is below 2^15
FDiv(a, b) ==
    IF b.inf \/ a.man = <<>> THEN FZero
    ELSE LET qr == BDivSmall(BShl(a.man, DivBits), BToInt(b.man))
         IN  FRound(BNorm(qr.q), a.exp - b.exp - DivBits, qr.r # 0)

\* a * n for an int 0 <= n < 2^15: the int converts exactly, one rounding
FMulInt(a, n) ==
    IF a.man = <<>> \/ n = 0 THEN FZero
    ELSE FRound(BMulSmall(a.man, n, 0), a.exp, FALSE)

\* math.floor(a)
FFloor(a) ==
    IF a.exp >= 0 THEN BToInt(BShl(a.man, a.exp)) ELSE BToInt(BShr(a.man, -a.exp))

\* a - math.floor(a): the bits after the binary point, exact in a double
FFrac(a) == IF a.exp >= 0 THEN FZero ELSE Canon(BMod2k(a.man, -a.exp), a.exp)

\* a < b on finite values
FLess(a, b) ==
    IF b.man = <<>> THEN FALSE
    ELSE IF a.man = <<>> THEN TRUE
    ELSE IF FTop(a) # FTop(b) THEN FTop(a) < FTop(b)
    ELSE LET lo == Min2(a.exp, b.exp)
         IN  BLess(BShl(a.man, a.exp - lo), BShl(b.man, b.exp - lo))

(***************************************************************************)
(* _allocate_counts (routers/candidates.py): largest-remainder allocation  *)
(* of total over the specs, computed in floats as the code does.           *)
(***************************************************************************)
\* sum(s.weight for s in specs): float additions from the left, start 0
RECURSIVE WeightSum(_)
WeightSum(specs) ==
    IF specs = <<>> THEN FZero
    ELSE FAdd(WeightSum(SubSeq(specs, 1, Len(specs) - 1)), specs[Len(specs)].weight)

\* raw = [(s.weight / weight_sum) * total for s in specs]
RawShares(specs, total) ==
    [i \in 1..Len(specs) |-> FMulInt(FDiv(specs[i].weight, WeightSum(specs)), total)]

RECURSIVE SumSeq(_)
SumSeq(s) == IF s = <<>> THEN 0 ELSE Head(s) + SumSeq(Tail(s))

\* one step of the stable sort: i goes behind every index whose key is <= its own
RECURSIVE InsertByKey(_, _, _)
InsertByKey(order, i, rem) ==
    IF order = <<>> THEN <<i>>
    ELSE IF FLess(rem[Head(order)], rem[i]) THEN <<i>> \o order
    ELSE <<Head(order)>> \o InsertByKey(Tail(order), i, rem)

\* sorted(range(len(specs)), key=lambda i: -remainders[i])
RECURSIVE SortedByRemainder(_, _)
SortedByRemainder(n, rem) ==
    IF n = 0 THEN <<>> ELSE InsertByKey(SortedByRemainder(n - 1, rem), n, rem)

\* as AwardLeftover, had the whole leftover gone to the largest remainder
AwardLeftoverToFirst(floors, order, leftover) ==
    IF order = <<>> \/ leftover <= 0 THEN floors
    ELSE [floors EXCEPT ![Head(order)] = @ + leftover]

\* the loop that awards the leftover slots, one per index, in sorted order
RECURSIVE AwardLeftover(_, _, _)
AwardLeftover(floors, order, leftover) ==
    IF order = <<>> \/ leftover <= 0 THEN floors
    ELSE AwardLeftover([floors EXCEPT ![Head(order)] = @ + 1], Tail(order), leftover - 1)

_allocate_counts(specs, total) ==
    LET raw == RawShares(specs, total)
        floors == [i \in 1..Len(specs) |-> FFloor(raw[i])]
        remainders == [i \in 1..Len(specs) |-> FFrac(raw[i])]
        leftover == total - SumSeq(floors)
    IN  AwardLeftover(floors, SortedByRemainder(Len(specs), remainders), leftover)

(***************************************************************************)
(* The generator registry (lib/candidates/base.py, __init__.py).  A        *)
(* generator is known here by its name and by whether its generate()       *)
(* accepts the video_only keyword the router passes.                       *)
(***************************************************************************)
None == "None"       \* Python's None, where a str | None is expected

\* what dict.get answers for a missing key
NoGenerator == [name |-> None, takes_video_only |-> FALSE]

\* generate(self, es, user_did, num_candidates=100)
PostSimilarityCandidateGenerator ==
    [name |-> "post_similarity", takes_video_only |-> FALSE]

\* generate(self, es, user_did, num_candidates=100, video_only=False)
PopularityCandidateGenerator ==
    [name |-> "popularity", takes_video_only |-> TRUE]

\* as register_generator, had a name once taken been kept (dict.setdefault)
register_generator_keeps_first(reg, gen) ==
    [n \in DOMAIN reg \cup {gen.name} |-> IF n \in DOMAIN reg THEN reg[n] ELSE gen]

\* _generators[gen.name] = gen
register_generator(reg, gen) ==
    [n \in DOMAIN reg \cup {gen.name} |-> IF n = gen.name THEN gen ELSE reg[n]]

\* _generators.get(name)
get_generator(name) == IF name \in DOMAIN registry THEN registry[name] ELSE NoGenerator

\* _generators after the package is imported: {} and the two built-ins
BuiltinRegistry ==
    register_generator(
        register_generator([n \in {} |-> NoGenerator], PostSimilarityCandidateGenerator),
        PopularityCandidateGenerator)

(***************************************************************************)
(* Requests and backend answers.                                           *)
(***************************************************************************)
SpecNames == {"popularity", "post_similarity", "nonexistent"}
WeightValues == {FFromInt(1), FFromInt(3)}
UserDids == {"did:plc:user1"}
HitUris == {"at://x", "at://y", None}

GeneratorSpec == [name : SpecNames, weight : WeightValues]

SeqsUpTo(S, n) == UNION {[1..k -> S] : k \in 0..n}

\* the bodies CandidateGenerateRequest accepts: at least one spec, weight > 0,
\* 1 <= num_candidates
CandidateGenerateRequest ==
    [generators : SeqsUpTo(GeneratorSpec, MaxSpecs) \ {<<>>},
     user_did : UserDids,
     num_candidates : 1..MaxTotal,
     video_only : BOOLEAN,
     infill : SpecNames \cup {None}]

\* what the k-th es.search of a request may answer with: the fields of a hit the
\* candidates keep.  The k-th search scores its hits k, so that a duplicate found
\* by a later search always outscores the one found earlier
Hit(k) == [at_uri : HitUris, score : {k}]
SearchAnswers(k) == SeqsUpTo(Hit(k), MaxHits)

\* JSON bodies as they arrive: whole-number weights that may be zero or negative,
\* a generator list that may be empty or missing, a count that may lie outside
\* [1, MaxNumCandidates]
MaxNumCandidates == 1000
RawWeights == {-1, 0, 1, 3}
RawCounts == {0, MaxNumCandidates + 1} \cup (1..MaxTotal)
RequestBodies ==
    [generators : SeqsUpTo([name : SpecNames, weight : RawWeights], MaxSpecs),
     user_did : UserDids,
     num_candidates : RawCounts,
     video_only : BOOLEAN,
     infill : SpecNames \cup {None}]
    \cup [user_did : UserDids]     \* no "generators" key at all
NoRequest == [received |-> FALSE]

\* as Validates, had `min_length=1` been left out of the generators field
ValidatesEmptyList(body) ==
    /\ "generators" \in DOMAIN body
    /\ \A i \in 1..Len(body.generators) : body.generators[i].weight > 0
    /\ body.num_candidates >= 1
    /\ body.num_candidates <= MaxNumCandidates

\* the Field constraints: generators required with min_length=1, weight gt=0,
\* num_candidates ge=1 and le=1000
Validates(body) ==
    /\ "generators" \in DOMAIN body
    /\ Len(body.generators) >= 1
    /\ \A i \in 1..Len(body.generators) : body.generators[i].weight > 0
    /\ body.num_candidates >= 1
    /\ body.num_candidates <= MaxNumCandidates

\* the CandidateGenerateRequest made of a body: `weight: float`
Parsed(body) ==
    [body EXCEPT !.generators =
        [i \in 1..Len(body.generators) |->
            [name |-> body.generators[i].name,
             weight |-> FFromInt(body.generators[i].weight)]]]

NoPayload ==
    [generators |-> <<>>, user_did |-> None, num_candidates |-> 0,
     video_only |-> FALSE, infill |-> None]
NoResponse == [status |-> 0, candidates |-> <<>>]

(***************************************************************************)
(* Helpers of the router (routers/candidates.py).                          *)
(***************************************************************************)
RECURSIVE DedupFrom(_, _)
DedupFrom(candidates, seen) ==
    IF candidates = <<>> THEN <<>>
    ELSE IF Head(candidates).at_uri \in seen THEN DedupFrom(Tail(candidates), seen)
    ELSE <<Head(candidates)>>
         \o DedupFrom(Tail(candidates), seen \cup {Head(candidates).at_uri})

\* as _dedup_candidates, had `seen.add(c.at_uri)` been left out
DedupForgetsSeen(candidates) == candidates

\* as _dedup_candidates, had it been written {c.at_uri: c for c in candidates}:
\* one candidate per at_uri in first-seen order, but the last one seen
DedupKeepsLast(candidates) ==
    LET d == DedupFrom(candidates, {})
        last(u) == CHOOSE i \in 1..Len(candidates) :
                      /\ candidates[i].at_uri = u
                      /\ \A j \in (i + 1)..Len(candidates) : candidates[j].at_uri # u
    IN  [i \in 1..Len(d) |-> candidates[last(d[i].at_uri)]]

\* as _dedup_candidates, had candidates without at_uri been let through
\* (`if c.at_uri is not None and c.at_uri in seen`)
DedupKeepsEveryNull(candidates) ==
    LET kept == {i \in 1..Len(candidates) :
                    \/ candidates[i].at_uri = None
                    \/ \A j \in 1..(i - 1) : candidates[j].at_uri # candidates[i].at_uri}
        nth(k) == CHOOSE i \in kept : Cardinality({j \in kept : j <= i}) = k
    IN  [k \in 1..Cardinality(kept) |-> candidates[nth(k)]]

\* keeps the first candidate of every at_uri, None included
_dedup_candidates(candidates) == DedupFrom(candidates, {})

\* as Slice, had the response returned deduped whole
SliceNothing(seq, n) == seq

\* seq[:n]
Slice(seq, n) == SubSeq(seq, 1, Min2(n, Len(seq)))

\* models.CandidatePost(**kwargs): the class declares these fields and a keyword
\* that is none of them is dropped
CandidatePostFields == {"at_uri", "content", "minilm_l12_embedding", "score"}
CandidatePost(kwargs, call) ==
    [f \in ((DOMAIN kwargs) \cap CandidatePostFields) \cup {"call"} |->
        IF f = "call" THEN call ELSE kwargs[f]]

\* the hits of the answer as CandidatePost objects; `call` is a history tag (the
\* ordinal of the generate() call that produced the candidate), no field of the
\* code's CandidatePost and read by none of the code's operators
Candidates(hits, call) ==
    [i \in 1..Len(hits) |->
        CandidatePost([at_uri |-> hits[i].at_uri, score |-> hits[i].score,
                       generator_name |-> PopularityCandidateGenerator.name], call)]

CallEvents(tr) == SelectSeq(tr, LAMBDA e : e.ev = "call")

(***************************************************************************)
(* POST /candidates/generate: the coroutine candidates_generate.  It runs  *)
(* without interruption between two awaits; the only awaits are the        *)
(* generate() calls, which for the popularity generator wait on one        *)
(* es.search.  Each action below is one such uninterrupted stretch.        *)
(***************************************************************************)
Lookup(phase, name) == [ev |-> "lookup", phase |-> phase, name |-> name]
Call(phase, name, n, video_only) ==
    [ev |-> "call", phase |-> phase, name |-> name, num_candidates |-> n,
     video_only |-> video_only]
Search(size, video_only) ==
    [ev |-> "search", index |-> "posts", size |-> size, video_filter |-> video_only]
Return(candidates) == [ev |-> "return", candidates |-> candidates]
Raise(cause) == [ev |-> "raise", cause |-> cause]

\* as SkipsSpec, had the test been `if count < 0`
SkipsSpecNegativeOnly(count) == count < 0

\* `if count <= 0: continue`
SkipsSpec(count) == count <= 0

\* the first loop position from i on that is not skipped, or one past the end
NextSpec(cnts, i) ==
    IF \E j \in i..Len(cnts) : ~SkipsSpec(cnts[j])
    THEN CHOOSE j \in i..Len(cnts) :
            ~SkipsSpec(cnts[j]) /\ \A k \in i..(j - 1) : SkipsSpec(cnts[k])
    ELSE Len(cnts) + 1

\* as NeedsInfill, had the test been `shortfall >= 0`
NeedsInfillAtZero(shortfall, infill) == shortfall >= 0 /\ infill # None

\* `if shortfall > 0 and payload.infill is not None`
NeedsInfill(shortfall, infill) == shortfall > 0 /\ infill # None

\* as InfillRequest, had the infill been asked for the shortfall alone
InfillRequestShortfall(shortfall) == shortfall

\* `num_candidates=shortfall * 2`
InfillRequest(shortfall) == shortfall * 2

\* `raise HTTPException(status_code=..)`: the request ends, nothing is returned
Abort(status) ==
    /\ pc' = "done"
    /\ response' = [status |-> status, candidates |-> <<>>]

\* as Respond, had a response short of num_candidates been made an error
RespondShortFails(p, d) ==
    IF Len(d) < p.num_candidates THEN Abort(502)
    ELSE /\ pc' = "done"
         /\ response' = [status |-> 200, candidates |-> Slice(d, p.num_candidates)]

\* `return CandidateGenerateResponse(candidates=deduped[:payload.num_candidates])`
Respond(p, d) ==
    /\ pc' = "done"
    /\ response' = [status |-> 200, candidates |-> Slice(d, p.num_candidates)]

\* `await gen.generate(es=.., user_did=.., num_candidates=n, video_only=..)` up to
\* its first await: a generate() without a video_only parameter raises TypeError
\* at the call, inside the try; the popularity generator issues its es.search
Invoke(p, gen, phase, n, tr) ==
    LET called == Append(tr, Call(phase, gen.name, n, p.video_only))
    IN  IF ~gen.takes_video_only
        THEN trace' = Append(called, Raise("TypeError")) /\ Abort(502)
        ELSE /\ trace' = Append(called, Search(n, p.video_only))
             /\ pc' = phase
             /\ response' = NoResponse

\* from `deduped = _dedup_candidates(all_candidates)` to the infill's await or
\* the response
AfterLoop(p, all, tr) ==
    LET d == _dedup_candidates(all)
        shortfall == p.num_candidates - Len(d)
    IN  /\ idx' = Len(p.generators) + 1
        /\ all_candidates' = all
        /\ deduped' = d
        /\ IF NeedsInfill(shortfall, p.infill)
           THEN IF get_generator(p.infill) = NoGenerator
                THEN trace' = Append(tr, Lookup("infill", p.infill)) /\ Abort(404)
                ELSE Invoke(p, get_generator(p.infill), "infill",
                            InfillRequest(shortfall),
                            Append(tr, Lookup("infill", p.infill)))
           ELSE trace' = tr /\ Respond(p, d)

\* the for-loop over zip(payload.generators, counts) from position i on, up to
\* the next generate() that awaits, an HTTPException or the end of the loop
RunLoop(p, cnts, i, all, tr) ==
    LET j == NextSpec(cnts, i)
    IN  IF j > Len(cnts) THEN AfterLoop(p, all, tr)
        ELSE /\ idx' = j
             /\ all_candidates' = all
             /\ deduped' = <<>>
             /\ IF get_generator(p.generators[j].name) = NoGenerator
                THEN /\ trace' = Append(tr, Lookup("primary", p.generators[j].name))
                     /\ Abort(404)
                ELSE Invoke(p, get_generator(p.generators[j].name), "primary", cnts[j],
                            Append(tr, Lookup("primary", p.generators[j].name)))

\* a request arrives: the handler runs up to its first await or its answer
candidates_generate(p) ==
    /\ pc = "idle"
    /\ payload' = p
    /\ counts' = _allocate_counts(p.generators, p.num_candidates)
    /\ RunLoop(p, _allocate_counts(p.generators, p.num_candidates), 1, <<>>, <<>>)
    /\ UNCHANGED registry

\* the awaited primary generate() returns: `all_candidates.extend(..)`, next spec
PrimaryReturns(hits) ==
    /\ pc = "primary"
    /\ LET result == Candidates(hits, Len(CallEvents(trace)))
       IN  RunLoop(payload, counts, idx + 1, all_candidates \o result,
                   Append(trace, Return(result)))
    /\ UNCHANGED <<registry, request, payload, counts>>

\* as PrimaryRaises, had the except clause logged the failure and gone on
PrimaryRaisesSwallowed ==
    /\ pc = "primary"
    /\ RunLoop(payload, counts, idx + 1, all_candidates, Append(trace, Raise("backend")))
    /\ UNCHANGED <<registry, request, payload, counts>>

\* the awaited primary generate() raises: `except Exception` answers 502
PrimaryRaises ==
    /\ pc = "primary"
    /\ trace' = Append(trace, Raise("backend"))
    /\ Abort(502)
    /\ UNCHANGED <<registry, request, payload, counts, idx, all_candidates, deduped>>

\* as InfillReturns, had the merge been infill_result.candidates + deduped
InfillReturnsInfillFirst(hits) ==
    /\ pc = "infill"
    /\ LET result == Candidates(hits, Len(CallEvents(trace)))
       IN  /\ deduped' = _dedup_candidates(result \o deduped)
           /\ trace' = Append(trace, Return(result))
           /\ Respond(payload, _dedup_candidates(result \o deduped))
    /\ UNCHANGED <<registry, request, payload, counts, idx, all_candidates>>

\* the awaited infill generate() returns: merge, dedup again, answer
InfillReturns(hits) ==
    /\ pc = "infill"
    /\ LET result == Candidates(hits, Len(CallEvents(trace)))
       IN  /\ deduped' = _dedup_candidates(deduped \o result)
           /\ trace' = Append(trace, Return(result))
           /\ Respond(payload, _dedup_candidates(deduped \o result))
    /\ UNCHANGED <<registry, request, payload, counts, idx, all_candidates>>

\* the awaited infill generate() raises: `except Exception` answers 502
InfillRaises ==
    /\ pc = "infill"
    /\ trace' = Append(trace, Raise("backend"))
    /\ Abort(502)
    /\ UNCHANGED <<registry, request, payload, counts, idx, all_candidates, deduped>>

\* POST /candidates/generate: the body is validated against
\* CandidateGenerateRequest; one that fails is answered 422 and the handler is
\* not called
post_candidates_generate(body) ==
    /\ pc = "idle"
    /\ request' = body
    /\ IF Validates(body) THEN candidates_generate(Parsed(body))
       ELSE /\ Abort(422)
            /\ UNCHANGED <<registry, payload, counts, idx, all_candidates, deduped, trace>>

Init ==
    /\ registry = BuiltinRegistry
    /\ request = NoRequest
    /\ pc = "idle"
    /\ payload = NoPayload
    /\ counts = <<>>
    /\ idx = 0
    /\ all_candidates = <<>>
    /\ deduped = <<>>
    /\ response = NoResponse
    /\ trace = <<>>

Next ==
    \/ pc = "idle" /\ \E body \in RequestBodies : post_candidates_generate(body)
    \/ pc = "primary" /\ \E hits \in SearchAnswers(Len(CallEvents(trace))) :
                            PrimaryReturns(hits)
    \/ PrimaryRaises
    \/ pc = "infill" /\ \E hits \in SearchAnswers(Len(CallEvents(trace))) :
                           InfillReturns(hits)
    \/ InfillRaises

Spec == Init /\ [][Next]_vars

(***************************************************************************)
(* _allocate_counts on its own: any spec list and total, then the call.    *)
(***************************************************************************)
AllocWeights == {FFromInt(1), FFromInt(3), FFromInt(4), FScaled(1, 1023)}

AllocInputs ==
    [generators : SeqsUpTo([name : {"popularity"}, weight : AllocWeights],
                           MaxAllocSpecs) \ {<<>>},
     user_did : {None},
     num_candidates : 0..MaxAllocTotal,
     video_only : {FALSE},
     infill : {None}]

InitAlloc ==
    /\ registry = BuiltinRegistry
    /\ request = NoRequest
    /\ pc = "alloc"
    /\ payload \in AllocInputs
    /\ counts = <<>>
    /\ idx = 0
    /\ all_candidates = <<>>
    /\ deduped = <<>>
    /\ response = NoResponse
    /\ trace = <<>>

Allocate ==
    /\ pc = "alloc"
    /\ counts' = _allocate_counts(payload.generators, payload.num_candidates)
    /\ pc' = "allocated"
    /\ UNCHANGED <<registry, request, payload, idx, all_candidates, deduped, response, trace>>

NextAlloc == Allocate

SpecAlloc == InitAlloc /\ [][NextAlloc]_vars

(***************************************************************************)
(* POST /skylight/similar (routers/skylight.py).  A base64 text is known   *)
(* by its number of alphabet characters and of trailing '=' signs, a       *)
(* vector by its dimension: the handler's control flow reads nothing else. *)
(***************************************************************************)
MaxUris == 2         \* longest at_uris list of a similar request
MaxEmbeddings == 2   \* longest embeddings list of a similar request

\* base64.b64decode(b64): raises binascii.Error on a stray character or on
\* missing padding, else gives 6 bits per character, whole bytes only
B64Raises(b64) ==
    \/ b64.sextets % 4 = 1
    \/ b64.sextets % 4 = 2 /\ b64.pad < 2
    \/ b64.sextets % 4 = 3 /\ b64.pad < 1
B64Bytes(b64) == (b64.sextets * 6) \div 8

\* decode_float32_b64 raises (b64decode, or `len(raw) % 4 != 0`)
DecodeRaises(b64) == B64Raises(b64) \/ B64Bytes(b64) % 4 # 0
\* len(decode_float32_b64(b64)): `count = len(raw) // 4`
DecodedDim(b64) == B64Bytes(b64) \div 4

\* "", one float32, two float32, three bytes, nine characters without padding
EmbeddingTexts ==
    {[sextets |-> 0, pad |-> 0], [sextets |-> 6, pad |-> 2],
     [sextets |-> 11, pad |-> 1], [sextets |-> 4, pad |-> 0],
     [sextets |-> 9, pad |-> 0]}
AtUris == {"at://a", "at://b"}
SizeValues == {1}

\* at_uris and embeddings are only ever tested for truth: None is taken as []
SkylightSimilarRequest ==
    [at_uris : SeqsUpTo(AtUris, MaxUris),
     embeddings : SeqsUpTo(EmbeddingTexts, MaxEmbeddings),
     size : SizeValues]

\* dimensions of the embeddings.all_MiniLM_L12_v2 of the hits of the lookup, 0
\* for a hit without one
StoredDims == 0..2
LookupAnswers(p) == SeqsUpTo(StoredDims, Len(p.at_uris))

SimilarSearch(kind, size) ==
    [ev |-> "search", index |-> "posts", kind |-> kind, size |-> size]

\* `raise HTTPException(status_code=..)` in skylight_similar
SimilarAbort(status) ==
    /\ pc' = "done"
    /\ response' = [status |-> status, results |-> <<>>]

\* the index of the first text decode_float32_b64 raises on, 0 if there is none
FirstUndecodable(embeddings) ==
    IF \E i \in 1..Len(embeddings) : DecodeRaises(embeddings[i])
    THEN CHOOSE i \in 1..Len(embeddings) :
            /\ DecodeRaises(embeddings[i])
            /\ \A j \in 1..(i - 1) : ~DecodeRaises(embeddings[j])
    ELSE 0

\* steps 2) to 4) of skylight_similar: decode the supplied embeddings, check
\* the dimensions, average, and issue the knn search
DecodeAndSearch(p, vectors, tr) ==
    IF FirstUndecodable(p.embeddings) # 0 THEN trace' = tr /\ SimilarAbort(400)
    ELSE LET all == vectors \o [i \in 1..Len(p.embeddings) |-> DecodedDim(p.embeddings[i])]
         IN  IF all = <<>> THEN trace' = tr /\ SimilarAbort(400)
             ELSE IF \E i \in 1..Len(all) : all[i] # all[1]
                  THEN trace' = tr /\ SimilarAbort(400)
                  ELSE /\ trace' = Append(tr, SimilarSearch("knn", p.size))
                       /\ pc' = "knn"
                       /\ response' = NoResponse

\* a request arrives: step 1) up to the lookup's await when at_uris are given
skylight_similar(p) ==
    /\ pc = "idle"
    /\ request' = p
    /\ IF p.at_uris # <<>>
       THEN /\ trace' = <<SimilarSearch("lookup", Len(p.at_uris))>>
            /\ pc' = "lookup"
            /\ response' = NoResponse
       ELSE DecodeAndSearch(p, <<>>, <<>>)
    /\ UNCHANGED <<registry, payload, counts, idx, all_candidates, deduped>>

\* the lookup returns: keep the non-empty stored vectors, 404 if there are
\* none and no embeddings were supplied, then go on with step 2)
LookupReturns(found) ==
    /\ pc = "lookup"
    /\ LET vectors == SelectSeq(found, LAMBDA d : d # 0)
       IN  IF vectors = <<>> /\ request.embeddings = <<>>
           THEN trace' = trace /\ SimilarAbort(404)
           ELSE DecodeAndSearch(request, vectors, trace)
    /\ UNCHANGED <<registry, request, payload, counts, idx, all_candidates, deduped>>

\* either search raises: `except Exception` answers 502
SimilarSearchRaises ==
    /\ pc \in {"lookup", "knn"}
    /\ trace' = Append(trace, Raise("backend"))
    /\ SimilarAbort(502)
    /\ UNCHANGED <<registry, request, payload, counts, idx, all_candidates, deduped>>

\* the knn search returns: one result per hit
KnnReturns(hits) ==
    /\ pc = "knn"
    /\ pc' = "done"
    /\ response' = [status |-> 200,
                    results |-> [i \in 1..Len(hits) |-> [at_uri |-> hits[i].at_uri]]]
    /\ UNCHANGED <<registry, request, payload, counts, idx, all_candidates, deduped, trace>>

NextSimilar ==
    \/ \E p \in SkylightSimilarRequest : skylight_similar(p)
    \/ pc = "lookup" /\ \E found \in LookupAnswers(request) : LookupReturns(found)
    \/ SimilarSearchRaises
    \/ pc = "knn" /\ \E hits \in SearchAnswers(1) : KnnReturns(hits)

SpecSimilar == Init /\ [][NextSimilar]_vars

(***************************************************************************)
(* PostSimilarityCandidateGenerator.generate called on its own             *)
(* (lib/candidates/post_similarity.py): likes, embeddings, average, knn.   *)
(***************************************************************************)
MaxLikes == 2        \* most hits the likes search answers with
DEFAULT_LIKED_POSTS_LIMIT == 50

\* generate(es, user_did, num_candidates), and the same with the video_only
\* keyword the router and the tests pass
GenerateCalls ==
    [user_did : UserDids, num_candidates : 1..MaxTotal]
    \cup [user_did : UserDids, num_candidates : 1..MaxTotal, video_only : BOOLEAN]

\* subject_uri of the hits of the likes search, None where a hit has none
LikesAnswers == SeqsUpTo(AtUris \cup {None}, MaxLikes)
\* embeddings.all_MiniLM_L12_v2 of the hits of the embeddings search, <<>> where
\* a hit has none
StoredVectors == {<<>>, <<1>>, <<3>>, <<1, 2>>}
EmbeddingAnswers(at_uris) == SeqsUpTo(StoredVectors, Len(at_uris))

LikesSearch(user_did) ==
    [ev |-> "search", index |-> "likes", author_did |-> user_did,
     size |-> DEFAULT_LIKED_POSTS_LIMIT]
EmbeddingsSearch(at_uris) ==
    [ev |-> "search", index |-> "posts", kind |-> "terms", at_uris |-> at_uris,
     size |-> Len(at_uris)]
\* knn_query: `"filter": [{"term": {"contains_video": True}}]`, always
KnnSearch(query_vector, num_candidates) ==
    [ev |-> "search", index |-> "posts", kind |-> "knn",
     query_vector |-> query_vector, k |-> num_candidates, size |-> num_candidates,
     filter |-> <<"contains_video">>]
Hits(hits) == [ev |-> "hits", hits |-> hits]

\* as LikedUris, had `if uri:` been left out
LikedUrisUnfiltered(hits) == hits

\* fetch_recent_liked_post_uris: the subject_uri of every hit that has one
LikedUris(hits) == SelectSeq(hits, LAMBDA uri : uri # None)

\* as FoundVectors, had `if vec:` been left out
FoundVectorsUnfiltered(found) == found

\* fetch_post_embeddings: the embedding of every hit that has a non-empty one
FoundVectors(found) == SelectSeq(found, LAMBDA vec : vec # <<>>)

\* average_vectors raises: ValueError on no vectors, IndexError when a vector
\* is longer than the first
AverageRaises(vectors) ==
    \/ vectors = <<>>
    \/ \E k \in 1..Len(vectors) : Len(vectors[k]) > Len(vectors[1])

\* average_vectors: per position of the first vector, the sum over the vectors
\* that reach it, divided by the number of vectors
average_vectors(vectors) ==
    [i \in 1..Len(vectors[1]) |->
        FDiv(FFromInt(SumSeq([k \in 1..Len(vectors) |->
                                 IF i <= Len(vectors[k]) THEN vectors[k][i] ELSE 0])),
             FFromInt(Len(vectors)))]

\* base.Candidate(at_uri=.., content=.., minilm_l12_embedding=.., score=..)
Candidate(hit) == [at_uri |-> hit.at_uri, score |-> hit.score]

\* `return CandidateResult(generator_name=self.name, candidates=..)`
ReturnResult(candidates) ==
    /\ pc' = "done"
    /\ response' = [status |-> "returned",
                    generator_name |-> PostSimilarityCandidateGenerator.name,
                    candidates |-> candidates]

\* an exception leaves generate
RaiseOut(cause, tr) ==
    /\ pc' = "done"
    /\ trace' = Append(tr, Raise(cause))
    /\ response' = [status |-> "raised", cause |-> cause]

\* the call: a video_only keyword is a TypeError, generate() has no such
\* parameter; otherwise step 1 up to the await of the likes search
generate(call) ==
    /\ pc = "idle"
    /\ request' = call
    /\ IF "video_only" \in DOMAIN call THEN RaiseOut("TypeError", <<>>)
       ELSE /\ trace' = <<LikesSearch(call.user_did)>>
            /\ pc' = "likes"
            /\ response' = NoResponse
    /\ UNCHANGED <<registry, payload, counts, idx, all_candidates, deduped>>

\* the likes search returns: `if not liked_uris: return`, else step 2 up to
\* the await of the embeddings search (which `if not at_uris` would skip)
LikesReturn(hits) ==
    /\ pc = "likes"
    /\ LET liked_uris == LikedUris(hits)
           tr == Append(trace, Hits(hits))
       IN  IF liked_uris = <<>> THEN trace' = tr /\ ReturnResult(<<>>)
           \* fetch_post_embeddings: `if not at_uris: return []`, then `if not vectors`
           ELSE IF Len(liked_uris) = 0 THEN trace' = tr /\ ReturnResult(<<>>)
           ELSE /\ trace' = Append(tr, EmbeddingsSearch(liked_uris))
                /\ pc' = "embeddings"
                /\ response' = NoResponse
    /\ UNCHANGED <<registry, request, payload, counts, idx, all_candidates, deduped>>

\* as EmbeddingsReturn, had generate gone on to average_vectors without
\* `if not vectors: return`
EmbeddingsReturnUnguarded(found) ==
    /\ pc = "embeddings"
    /\ LET vectors == FoundVectors(found)
           tr == Append(trace, Hits(found))
       IN  IF AverageRaises(vectors)
           THEN RaiseOut(IF vectors = <<>> THEN "ValueError" ELSE "IndexError", tr)
           ELSE /\ trace' = Append(tr, KnnSearch(average_vectors(vectors),
                                                 request.num_candidates))
                /\ pc' = "knn"
                /\ response' = NoResponse
    /\ UNCHANGED <<registry, request, payload, counts, idx, all_candidates, deduped>>

\* the embeddings search returns: `if not vectors: return`, else steps 3 and 4
\* up to the await of the knn search
EmbeddingsReturn(found) ==
    /\ pc = "embeddings"
    /\ LET vectors == FoundVectors(found)
           tr == Append(trace, Hits(found))
       IN  IF vectors = <<>> THEN trace' = tr /\ ReturnResult(<<>>)
           ELSE IF AverageRaises(vectors)
                THEN RaiseOut(IF vectors = <<>> THEN "ValueError" ELSE "IndexError", tr)
           ELSE /\ trace' = Append(tr, KnnSearch(average_vectors(vectors),
                                                 request.num_candidates))
                /\ pc' = "knn"
                /\ response' = NoResponse
    /\ UNCHANGED <<registry, request, payload, counts, idx, all_candidates, deduped>>

\* the knn search returns: one Candidate per hit
KnnReturn(hits) ==
    /\ pc = "knn"
    /\ trace' = Append(trace, Hits(hits))
    /\ ReturnResult([i \in 1..Len(hits) |-> Candidate(hits[i])])
    /\ UNCHANGED <<registry, request, payload, counts, idx, all_candidates, deduped>>

\* any of the three searches raises: nothing in generate catches it
SimilaritySearchRaises ==
    /\ pc \in {"likes", "embeddings", "knn"}
    /\ RaiseOut("backend", trace)
    /\ UNCHANGED <<registry, request, payload, counts, idx, all_candidates, deduped>>

NextSimilarity ==
    \/ pc = "idle" /\ \E call \in GenerateCalls : generate(call)
    \/ pc = "likes" /\ \E hits \in LikesAnswers : LikesReturn(hits)
    \/ pc = "embeddings" /\
          \E found \in EmbeddingAnswers(trace[Len(trace)].at_uris) : EmbeddingsReturn(found)
    \/ pc = "knn" /\ \E hits \in SearchAnswers(3) : KnnReturn(hits)
    \/ SimilaritySearchRaises

SpecSimilarity == Init /\ [][NextSimilarity]_vars

(***************************************************************************)
(* PopularityCandidateGenerator.generate called twice on one backend state *)
(* for two users (lib/candidates/popularity.py).                           *)
(***************************************************************************)
PopularityUsers == {"did:plc:user1", "did:plc:user2"}

\* the posts of the last 24h the index may hold, with the score the
\* function_score query gives each at the time of the two calls
RecentPosts ==
    { [at_uri |-> "at://x", contains_video |-> TRUE,  score |-> 3],
      [at_uri |-> "at://y", contains_video |-> FALSE, score |-> 2],
      [at_uri |-> "at://z", contains_video |-> TRUE,  score |-> 1] }

\* as PopularityQuery, had the query been narrowed to the caller
PopularityQueryPerUser(user_did, num_candidates, video_only) ==
    [index |-> "posts",
     filter |-> (IF video_only THEN <<"contains_video">> ELSE <<>>)
                    \o <<"created_at", user_did>>,
     size |-> num_candidates]

\* popularity_search: the function_score query and the size; user_did is a
\* parameter of generate that never reaches it
PopularityQuery(user_did, num_candidates, video_only) ==
    [index |-> "posts",
     filter |-> (IF video_only THEN <<"contains_video">> ELSE <<>>) \o <<"created_at">>,
     size |-> num_candidates]

\* the backend: the posts that pass the filter, best score first, at most size
RECURSIVE ByScore(_)
ByScore(posts) ==
    IF posts = {} THEN <<>>
    ELSE LET best == CHOOSE p \in posts : \A q \in posts : q.score <= p.score
         IN  <<best>> \o ByScore(posts \ {best})

es_search(es, query) ==
    LET wants_video == \E i \in 1..Len(query.filter) : query.filter[i] = "contains_video"
        passing == {p \in es : wants_video => p.contains_video}
        ranked == ByScore(passing)
    IN  SubSeq(ranked, 1, IF Len(ranked) < query.size THEN Len(ranked) ELSE query.size)

PopularitySearch(run, query) == [ev |-> "search", run |-> run, query |-> query]

\* the request of run k of the pair
RunQuery(k) ==
    PopularityQuery(request.user_dids[k], request.num_candidates, request.video_only)

\* both calls are fixed, the first one runs up to its await of es.search
popularity_generate(es, user_dids, num_candidates, video_only) ==
    /\ pc = "idle"
    /\ request' = [es |-> es, user_dids |-> user_dids,
                   num_candidates |-> num_candidates, video_only |-> video_only]
    /\ trace' = <<PopularitySearch(1, PopularityQuery(user_dids[1], num_candidates,
                                                       video_only))>>
    /\ pc' = "run1"
    /\ response' = [status |-> "running", results |-> <<>>]
    /\ UNCHANGED <<registry, payload, counts, idx, all_candidates, deduped>>

\* the search of the first call returns, the call returns its CandidateResult;
\* the second call runs up to its await
FirstPopularityReturns ==
    /\ pc = "run1"
    /\ response' = [status |-> "running",
                    results |-> <<Candidates(es_search(request.es, trace[1].query), 1)>>]
    /\ trace' = Append(trace, PopularitySearch(2, RunQuery(2)))
    /\ pc' = "run2"
    /\ UNCHANGED <<registry, request, payload, counts, idx, all_candidates, deduped>>

\* the search of the second call returns
SecondPopularityReturns ==
    /\ pc = "run2"
    /\ response' = [status |-> "returned",
                    results |-> Append(response.results,
                                       Candidates(es_search(request.es, trace[2].query), 2))]
    /\ pc' = "done"
    /\ UNCHANGED <<registry, request, payload, counts, idx, all_candidates, deduped, trace>>

\* es.search raises in either call
PopularitySearchRaises ==
    /\ pc \in {"run1", "run2"}
    /\ trace' = Append(trace, Raise("backend"))
    /\ response' = [status |-> "raised", results |-> response.results]
    /\ pc' = "done"
    /\ UNCHANGED <<registry, request, payload, counts, idx, all_candidates, deduped>>

NextPopularity ==
    \/ pc = "idle" /\
       \E es \in SUBSET RecentPosts, user_dids \in PopularityUsers \X PopularityUsers,
          num_candidates \in 1..MaxTotal, video_only \in BOOLEAN :
          popularity_generate(es, user_dids, num_candidates, video_only)
    \/ FirstPopularityReturns
    \/ SecondPopularityReturns
    \/ PopularitySearchRaises

SpecPopularity == Init /\ [][NextPopularity]_vars

(***************************************************************************)
(* encode_float32_b64 and decode_float32_b64 (lib/embeddings.py).  A float *)
(* is a sign and a magnitude; struct's "<f" is C's (float) cast, the four  *)
(* bytes little-endian; base64 text is its alphabet positions (0..63) and  *)
(* the number of '=' that follow.                                          *)
(***************************************************************************)
MaxDim == 2          \* longest vector given to encode_float32_b64
MaxChars == 6        \* most alphabet characters of a text given to decode

F32MantBits == 24    \* significand precision of a float32
F32MinExp == -149    \* the smallest float32 subnormal is 2^-149
F32MaxTop == 128     \* finite float32 values are < 2^128

FNaN == [inf |-> TRUE, man |-> <<1>>, exp |-> 0]
Signed(neg, abs) == [neg |-> neg, abs |-> abs]

\* as F32Round, had the cast chopped the low bits off
F32RoundDown(x, e) ==
    LET low == Max2(e + BBitLen(x) - F32MantBits, F32MinExp)
    IN  [man |-> BToInt(IF low <= e THEN BShl(x, e - low) ELSE BShr(x, low - e)),
         exp |-> low]

\* (float)(x * 2^e): the float32 nearest to it, ties to even, as man * 2^exp
\* with man < 2^24 and exp the exponent of the last float32 bit
F32Round(x, e) ==
    LET low == Max2(e + BBitLen(x) - F32MantBits, F32MinExp)
        d == low - e
    IN  IF d <= 0 THEN [man |-> BToInt(BShl(x, -d)), exp |-> low]
        ELSE LET kept == BToInt(BShr(x, d))
                 guard == BBit(x, d - 1)
                 rest == BMod2k(x, d - 1) # <<>>
                 up == guard = 1 /\ (rest \/ kept % 2 = 1)
                 m == IF up THEN kept + 1 ELSE kept
             IN  IF m = 2^F32MantBits THEN [man |-> 2^(F32MantBits - 1), exp |-> low + 1]
                 ELSE [man |-> m, exp |-> low]

\* PyFloat_Pack4: `if (isinf(y) && !isinf(x)) goto Overflow`
PackRaises(v) ==
    /\ ~v.abs.inf
    /\ LET r == F32Round(v.abs.man, v.abs.exp)
       IN  r.exp + F32MantBits > F32MaxTop /\ r.man >= 2^(F32MantBits - 1)

\* struct.pack("<f", v): sign, 8 exponent bits, 23 fraction bits, low byte first
pack_f(v) ==
    LET r == F32Round(v.abs.man, v.abs.exp)
        normal == r.man >= 2^(F32MantBits - 1)
        sign == IF v.neg THEN 1 ELSE 0
        bexp == IF v.abs.inf THEN 255
                ELSE IF normal THEN r.exp - F32MinExp + 1 ELSE 0
        frac == IF v.abs = FNaN THEN 2^22
                ELSE IF v.abs.inf THEN 0
                ELSE IF normal THEN r.man - 2^(F32MantBits - 1) ELSE r.man
    IN  <<frac % 256, (frac \div 256) % 256,
          (bexp % 2) * 128 + frac \div 65536, sign * 128 + bexp \div 2>>

\* struct.unpack("<f", four bytes)
unpack_f(b) ==
    LET bexp == (b[4] % 128) * 2 + b[3] \div 128
        frac == (b[3] % 128) * 65536 + b[2] * 256 + b[1]
    IN  Signed(b[4] >= 128,
               IF bexp = 255 THEN (IF frac = 0 THEN FInf ELSE FNaN)
               ELSE IF bexp = 0 THEN Canon(BFromInt(frac), F32MinExp)
               ELSE Canon(BFromInt(2^(F32MantBits - 1) + frac), bexp + F32MinExp - 1))

RECURSIVE Flatten(_)
Flatten(ss) == IF ss = <<>> THEN <<>> ELSE Head(ss) \o Flatten(Tail(ss))

\* base64.b64encode(raw): three bytes make four characters, a rest of one or
\* two bytes makes two or three characters and '=' up to four
RECURSIVE b64encode(_)
b64encode(raw) ==
    IF raw = <<>> THEN [chars |-> <<>>, pad |-> 0]
    ELSE IF Len(raw) = 1 THEN
        [chars |-> <<raw[1] \div 4, (raw[1] % 4) * 16>>, pad |-> 2]
    ELSE IF Len(raw) = 2 THEN
        [chars |-> <<raw[1] \div 4, (raw[1] % 4) * 16 + raw[2] \div 16,
                     (raw[2] % 16) * 4>>, pad |-> 1]
    ELSE LET rest == b64encode(SubSeq(raw, 4, Len(raw)))
         IN  [chars |-> <<raw[1] \div 4, (raw[1] % 4) * 16 + raw[2] \div 16,
                          (raw[2] % 16) * 4 + raw[3] \div 64, raw[3] % 64>>
                        \o rest.chars,
              pad |-> rest.pad]

\* base64.b64decode(b64) where it does not raise: four characters make three
\* bytes, a rest of two or three characters makes one or two bytes, the bits
\* left over are dropped
RECURSIVE b64decode(_)
b64decode(chars) ==
    IF Len(chars) < 2 THEN <<>>
    ELSE IF Len(chars) = 2 THEN <<chars[1] * 4 + chars[2] \div 16>>
    ELSE IF Len(chars) = 3 THEN
        <<chars[1] * 4 + chars[2] \div 16, (chars[2] % 16) * 16 + chars[3] \div 4>>
    ELSE <<chars[1] * 4 + chars[2] \div 16, (chars[2] % 16) * 16 + chars[3] \div 4,
           (chars[3] % 4) * 64 + chars[4]>>
         \o b64decode(SubSeq(chars, 5, Len(chars)))

\* as BadLength, had the length been tested for evenness only
BadLengthOdd(raw) == Len(raw) % 2 # 0

\* `if len(raw) % 4 != 0`
BadLength(raw) == Len(raw) % 4 # 0

\* encode_float32_b64(vec): struct.error's OverflowError, or the text
encode_float32_b64(vec) ==
    IF \E i \in 1..Len(vec) : PackRaises(vec[i])
    THEN [status |-> "raised", cause |-> "OverflowError"]
    ELSE [status |-> "returned",
          text |-> b64encode(Flatten([i \in 1..Len(vec) |-> pack_f(vec[i])]))]

\* decode_float32_b64(b64): binascii.Error, ValueError, or the list of floats
decode_float32_b64(b64) ==
    IF B64Raises([sextets |-> Len(b64.chars), pad |-> b64.pad])
    THEN [status |-> "raised", cause |-> "binascii.Error"]
    ELSE LET raw == b64decode(b64.chars)
         IN  IF BadLength(raw) THEN [status |-> "raised", cause |-> "ValueError"]
             ELSE [status |-> "returned",
                   values |-> [k \in 1..(Len(raw) \div 4) |->
                                  unpack_f(SubSeq(raw, 4 * k - 3, 4 * k))]]

\* signs times magnitudes: zero; 1, 1.5; the float32 subnormals 2^-149 and
\* 3 * 2^-149, the least normal 2^-126; below the float32 range 2^-150,
\* 3 * 2^-151, (2^24 - 1) * 2^-173 and the least double 2^-1074; 25- and 26-bit
\* significands that round; the 53 ones below 1; the largest float32, the
\* doubles next to 2^128, 2^128 and the largest double
Doubles ==
    LET ones == BAdd(BShl(BFromInt(2^27 - 1), 26), BFromInt(2^26 - 1), 0)
    IN  {Signed(neg, abs) : neg \in BOOLEAN, abs \in
            {FZero, FScaled(1, 0), FScaled(3, -1),
             FScaled(1, -149), FScaled(3, -149), FScaled(1, -126),
             FScaled(1, -150), FScaled(3, -151), FScaled(2^24 - 1, -173),
             FScaled(1, MinExp),
             FScaled(2^24 + 1, 0), FScaled(2^24 + 3, 0), FScaled(2^25 + 3, 0),
             Canon(ones, -53),
             FScaled(2^24 - 1, 104), FScaled(2^25 - 3, 103), FScaled(2^25 - 1, 103),
             FScaled(1, 128), Canon(ones, 971)}}

\* texts of the characters A, V and / and up to two '='
Texts == [chars : SeqsUpTo({0, 21, 63}, MaxChars), pad : 0..2]

\* encode_float32_b64(vec) is called
Encode(vec) ==
    /\ pc = "idle"
    /\ request' = [vec |-> vec]
    /\ response' = encode_float32_b64(vec)
    /\ pc' = "encoded"
    /\ UNCHANGED <<registry, payload, counts, idx, all_candidates, deduped, trace>>

\* decode_float32_b64 is called on the text encode returned
DecodeEncoded ==
    /\ pc = "encoded"
    /\ response.status = "returned"
    /\ response' = decode_float32_b64(response.text)
    /\ pc' = "decoded"
    /\ UNCHANGED <<registry, request, payload, counts, idx, all_candidates, deduped, trace>>

\* decode_float32_b64(b64) is called on a text from elsewhere
Decode(b64) ==
    /\ pc = "idle"
    /\ request' = [b64 |-> b64]
    /\ response' = decode_float32_b64(b64)
    /\ pc' = "decoded"
    /\ UNCHANGED <<registry, payload, counts, idx, all_candidates, deduped, trace>>

NextCodec ==
    \/ pc = "idle" /\ \E vec \in SeqsUpTo(Doubles, MaxDim) : Encode(vec)
    \/ DecodeEncoded
    \/ pc = "idle" /\ \E b64 \in Texts : Decode(b64)

SpecCodec == Init /\ [][NextCodec]_vars

(***************************************************************************)
(* The registry on its own: register_generator calls after the import of   *)
(* the package, get_generator and list_generators reading _generators      *)
(* (lib/candidates/base.py).                                               *)
(***************************************************************************)
MaxRegistrations == 3   \* most register_generator calls after the import

\* instances that may be registered: two to a name, told apart by their class
GeneratorInstances ==
    [name : {"popularity", "post_similarity", "custom"}, takes_video_only : BOOLEAN]

\* register_generator(gen) is called
RegisterGenerator(gen) ==
    /\ pc = "idle"
    /\ Len(trace) < MaxRegistrations
    /\ registry' = register_generator(registry, gen)
    /\ trace' = Append(trace, [ev |-> "register", gen |-> gen])
    /\ UNCHANGED <<request, pc, payload, counts, idx, all_candidates, deduped, response>>

\* list(_generators.keys()) after the names were set in this order: a dict
\* holds a key once, at the place of its first insertion
RECURSIVE list_generators(_)
list_generators(names) ==
    IF names = <<>> THEN <<>>
    ELSE LET before == list_generators(SubSeq(names, 1, Len(names) - 1))
         IN  IF \E i \in 1..Len(before) : before[i] = names[Len(names)]
             THEN before ELSE Append(before, names[Len(names)])

NextRegistry == \E gen \in GeneratorInstances : RegisterGenerator(gen)

SpecRegistry == Init /\ [][NextRegistry]_vars

(***************************************************************************)
(* Two POST /candidates/generate requests on one event loop.  The locals   *)
(* of a coroutine (payload, counts, the loop position, all_candidates,     *)
(* deduped) are its frame; the variables hold the frame of the coroutine   *)
(* the loop runs next, request.parked the frame of the other one.  Only    *)
(* _generators is shared.                                                  *)
(***************************************************************************)
CurrentFrame ==
    [pc |-> pc, payload |-> payload, counts |-> counts, idx |-> idx,
     all_candidates |-> all_candidates, deduped |-> deduped,
     response |-> response, trace |-> trace]

\* the frame of a request that has not arrived yet
IdleFrame ==
    [pc |-> "idle", payload |-> NoPayload, counts |-> <<>>, idx |-> 0,
     all_candidates |-> <<>>, deduped |-> <<>>, response |-> NoResponse,
     trace |-> <<>>]

\* validated bodies of the two requests: one or two specs of weight 1 that
\* name the popularity generator or nobody, with or without popularity infill
ConcurrentPayloads ==
    {p \in CandidateGenerateRequest :
        /\ \A i \in 1..Len(p.generators) :
              /\ p.generators[i].weight = FFromInt(1)
              /\ p.generators[i].name \in {"popularity", "nonexistent"}
        /\ ~p.video_only
        /\ p.num_candidates = MaxTotal
        /\ p.infill \in {None, "popularity"}}

\* the backend answers a search of either request with at most one hit
ConcurrentAnswers(k) == SeqsUpTo(Hit(k), 1)

\* as Resume, had all_candidates been a list of the module that every
\* request appends to
ResumeSharingCandidates(f) ==
    /\ pc' = f.pc
    /\ payload' = f.payload
    /\ counts' = f.counts
    /\ idx' = f.idx
    /\ all_candidates' = all_candidates
    /\ deduped' = f.deduped
    /\ response' = f.response
    /\ trace' = f.trace

\* the loop resumes a coroutine: its locals are those it was suspended with
Resume(f) ==
    /\ pc' = f.pc
    /\ payload' = f.payload
    /\ counts' = f.counts
    /\ idx' = f.idx
    /\ all_candidates' = f.all_candidates
    /\ deduped' = f.deduped
    /\ response' = f.response
    /\ trace' = f.trace

\* a request arrives and its handler runs up to its first await or its answer
ConcurrentArrives(p) ==
    /\ pc = "idle"
    /\ request' = IF request = NoRequest
                  THEN [received |-> TRUE, running |-> 1, parked |-> IdleFrame]
                  ELSE request
    /\ candidates_generate(p)

\* the coroutine that ran is suspended at its await (or has answered, or is yet
\* to arrive) and the loop turns to the other one
Switch ==
    /\ request # NoRequest
    /\ request' = [request EXCEPT !.running = 3 - @, !.parked = CurrentFrame]
    /\ Resume(request.parked)
    /\ UNCHANGED registry

NextConcurrent ==
    \/ pc = "idle" /\ \E p \in ConcurrentPayloads : ConcurrentArrives(p)
    \/ Switch
    \/ pc = "primary" /\ \E hits \in ConcurrentAnswers(Len(CallEvents(trace))) :
                            PrimaryReturns(hits)
    \/ PrimaryRaises
    \/ pc = "infill" /\ \E hits \in ConcurrentAnswers(Len(CallEvents(trace))) :
                           InfillReturns(hits)
    \/ InfillRaises

SpecConcurrent == Init /\ [][NextConcurrent]_vars

(***************************************************************************)
(* The score of the function_score query popularity_search sends           *)
(* (lib/candidates/popularity.py), as Elasticsearch computes it.  Ages are *)
(* whole hours; a score is num / 2^shift.  The posts are taken at the ages *)
(* and like counts where the gauss decay and the logarithm are exact:      *)
(* 0.5^(k^2) at offset + k * scale, log10(1 + 1.5 * n) at n = 0, 6, 66.    *)
(***************************************************************************)
RECENCY_WINDOW == 24   \* "24h"
DECAY_SCALE == 6       \* "6h"
DECAY_OFFSET == 1      \* "1h"
LIKE_MISSING == 0

\* {"gauss": {"created_at": {"origin": "now", "scale", "offset", "decay": 0.5}}}:
\* decay ^ ((max(0, age - offset) / scale)^2), here the exponent of 1/2
gauss(age) ==
    LET k == Max2(0, age - DECAY_OFFSET) \div DECAY_SCALE
    IN  k * k

\* {"field_value_factor": {"field": "like_count", "factor": 1.5, "modifier":
\* "log1p", "missing": 0}}: log10(1 + 1.5 * like_count)
field_value_factor(post) ==
    LET n == IF "like_count" \in DOMAIN post THEN post.like_count ELSE LIKE_MISSING
    IN  CHOOSE e \in 0..2 : 10^e = 1 + (3 * n) \div 2

\* the bool query has filter clauses only: Elasticsearch scores every
\* document that passes them 0
bool_filter_score(post) == 0

\* "score_mode": "multiply" over the two functions, "boost_mode": "multiply"
\* with the score of the query
function_score(post) ==
    [num |-> bool_filter_score(post) * field_value_factor(post),
     shift |-> gauss(post.age),
     recency |-> [num |-> 1, shift |-> gauss(post.age)],
     engagement |-> field_value_factor(post)]

\* the search scores two posts of the last 24 hours
PopularityScores(posts) ==
    /\ pc = "idle"
    /\ request' = [posts |-> posts]
    /\ response' = [status |-> "scored",
                    scores |-> [i \in 1..Len(posts) |-> function_score(posts[i])]]
    /\ pc' = "done"
    /\ UNCHANGED <<registry, payload, counts, idx, all_candidates, deduped, trace>>

NextScoring ==
    LET ages == {a \in {0, 1, 7, 13, 19} : a <= RECENCY_WINDOW}
    IN  pc = "idle" /\ \E posts \in [1..2 -> [age : ages, like_count : {0, 6, 66}] \cup [age : ages]] :
            PopularityScores(posts)

SpecScoring == Init /\ [][NextScoring]_vars

(***************************************************************************)
(* POST /candidates/generate behind the router's dependency verify_api_key *)
(* (security.py): the dependency is solved first, then the body is         *)
(* validated, then the handler runs.                                       *)
(***************************************************************************)
\* as verify_api_key, had `not expected_key` been left out of the test
verify_api_key_unset_passes(expected_key, api_key) == api_key = expected_key

\* verify_api_key does not raise: `not expected_key or api_key != expected_key`
\* is false.  None is an unset API_KEY or a missing X-API-Key header
verify_api_key(expected_key, api_key) ==
    ~(expected_key \in {None, ""} \/ api_key # expected_key)

\* a request arrives with this X-API-Key header while API_KEY is expected_key
SecuredPost(expected_key, api_key, body) ==
    /\ pc = "idle"
    /\ request' = [received |-> TRUE, API_KEY |-> expected_key, x_api_key |-> api_key,
                   body |-> body]
    /\ IF ~verify_api_key(expected_key, api_key)
       THEN /\ Abort(401)
            /\ UNCHANGED <<registry, payload, counts, idx, all_candidates, deduped, trace>>
       ELSE IF ~Validates(body)
       THEN /\ Abort(422)
            /\ UNCHANGED <<registry, payload, counts, idx, all_candidates, deduped, trace>>
       ELSE candidates_generate(Parsed(body))

NextSecured ==
    \/ pc = "idle" /\
          \E expected_key \in {None, "", "secret"}, api_key \in {None, "", "secret", "wrong"},
             body \in RequestBodies : SecuredPost(expected_key, api_key, body)
    \/ pc = "primary" /\ \E hits \in SearchAnswers(Len(CallEvents(trace))) :
                            PrimaryReturns(hits)
    \/ PrimaryRaises
    \/ pc = "infill" /\ \E hits \in SearchAnswers(Len(CallEvents(trace))) :
                           InfillReturns(hits)
    \/ InfillRaises

SpecSecured == Init /\ [][NextSecured]_vars

(***************************************************************************)
(* What the claims speak about.                                            *)
(***************************************************************************)
\* everything the generators returned in this request, in the order returned
RECURSIVE Produced(_)
Produced(tr) ==
    IF tr = <<>> THEN <<>>
    ELSE (IF Head(tr).ev = "return" THEN Head(tr).candidates ELSE <<>>)
         \o Produced(Tail(tr))

\* s can be had from t by deleting elements
RECURSIVE IsSubseq(_, _)
IsSubseq(s, t) ==
    IF s = <<>> THEN TRUE
    ELSE IF t = <<>> THEN FALSE
    ELSE IF Head(s) = Head(t) THEN IsSubseq(Tail(s), Tail(t))
    ELSE IsSubseq(s, Tail(t))

Registered(name) == name \in DOMAIN registry
NamesUnregistered == \E i \in 1..Len(payload.generators) :
                        ~Registered(payload.generators[i].name)

\* the for-loop over the primary generators has run to its end
LoopDone == pc \in {"infill", "done"} /\ idx > Len(payload.generators)

\* d: how many candidates the primary generators left after dedup
PrimaryCount == Len(_dedup_candidates(all_candidates))

InfillEvents == SelectSeq(trace, LAMBDA e : e.ev \in {"lookup", "call"} /\ e.phase = "infill")
InfillCalls == SelectSeq(trace, LAMBDA e : e.ev = "call" /\ e.phase = "infill")
Raised == \E i \in 1..Len(trace) : trace[i].ev = "raise"

(***************************************************************************)
(* C1: for every non-empty spec list with positive weights and every total *)
(* N >= 0, _allocate_counts returns one count per spec, each a natural     *)
(* number, and the counts sum to exactly N.                                *)
(***************************************************************************)
C1_CountsSumToTotal ==
    pc = "allocated" =>
        /\ Len(counts) = Len(payload.generators)
        /\ \A i \in 1..Len(counts) : counts[i] \in Nat
        /\ SumSeq(counts) = payload.num_candidates

(***************************************************************************)
(* C2: in every response of a generate request, with or without infill, no *)
(* two candidates share a non-null at_uri, and the candidates stand in the *)
(* order in which the generators returned them.                            *)
(***************************************************************************)
C2_NoDuplicateOrderKept ==
    response.status = 200 =>
        LET out == response.candidates
        IN  /\ \A i, j \in 1..Len(out) :
                  (i # j /\ out[i].at_uri # None) => out[i].at_uri # out[j].at_uri
            /\ IsSubseq(out, Produced(trace))

\* a response of two candidates after a duplicate non-null at_uri was dropped
C2_Witness ==
    /\ response.status = 200
    /\ Len(response.candidates) = 2
    /\ \E i, j \in 1..Len(Produced(trace)) :
          /\ i < j
          /\ Produced(trace)[i].at_uri # None
          /\ Produced(trace)[i].at_uri = Produced(trace)[j].at_uri

(***************************************************************************)
(* C3: when a request names an unregistered primary generator, no          *)
(* generator is invoked for that request, wherever the name stands in the  *)
(* spec list (stated for the requests in which no generator call fails).   *)
(***************************************************************************)
C3_UnregisteredNoGeneratorRuns ==
    (NamesUnregistered /\ ~Raised) => CallEvents(trace) = <<>>

(***************************************************************************)
(* C4: a request whose generator list names an unregistered generator ends *)
(* in 404 and returns no candidates, whatever the weights, the total and   *)
(* the position of the unregistered spec (stated for the requests in which *)
(* no generator call fails).                                               *)
(***************************************************************************)
C4_UnregisteredEndsNotFound ==
    (pc = "done" /\ NamesUnregistered /\ ~Raised) =>
        response = [status |-> 404, candidates |-> <<>>]

(***************************************************************************)
(* C5: if the deduplicated output of the primary generators holds at least *)
(* N candidates, the infill generator is neither resolved nor invoked.     *)
(***************************************************************************)
C5_NoInfillWhenEnough ==
    (LoopDone /\ PrimaryCount >= payload.num_candidates) => InfillEvents = <<>>

\* the primaries sufficed and the request named an infill nobody registered
C5_Witness ==
    /\ response.status = 200
    /\ PrimaryCount >= payload.num_candidates
    /\ payload.infill = "nonexistent"

(***************************************************************************)
(* C6: when the deduplicated primary count d is below N and a registered   *)
(* infill is named, the infill generator is invoked exactly once, after    *)
(* all primary generators, for exactly 2 * (N - d) candidates, and never   *)
(* again, even if the merged result is still short of N.                   *)
(***************************************************************************)
C6_InfillOnceForTwiceShortfall ==
    (LoopDone /\ Registered(payload.infill) /\ PrimaryCount < payload.num_candidates) =>
        LET calls == CallEvents(trace)
        IN  /\ Len(InfillCalls) = 1
            /\ InfillCalls[1].num_candidates = 2 * (payload.num_candidates - PrimaryCount)
            /\ calls[Len(calls)].phase = "infill"

\* the infill ran after a primary and the response is still short of N
C6_Witness ==
    /\ response.status = 200
    /\ Len(InfillCalls) = 1
    /\ Len(CallEvents(trace)) > 1
    /\ Len(response.candidates) < payload.num_candidates

(***************************************************************************)
(* C7: every successful response holds at most N candidates, whatever the  *)
(* generators and the infill return.                                       *)
(***************************************************************************)
C7_AtMostTotal ==
    response.status = 200 => Len(response.candidates) <= payload.num_candidates

\* a generator returned more than it was asked for and the response was cut
C7_Witness ==
    /\ response.status = 200
    /\ Len(deduped) > payload.num_candidates
    /\ Len(response.candidates) = payload.num_candidates

(***************************************************************************)
(* C8: of the candidates with one at_uri the response keeps the one from   *)
(* the generator called first (an earlier spec before a later one, any     *)
(* primary before the infill), whatever the scores.                        *)
(***************************************************************************)
C8_EarlierGeneratorWins ==
    response.status = 200 =>
        LET out == response.candidates
            produced == Produced(trace)
        IN  \A i \in 1..Len(out) : \A k \in 1..Len(produced) :
                produced[k].at_uri = out[i].at_uri => out[i].call <= produced[k].call

\* a later generator returned a kept at_uri again, with a higher score
C8_Witness ==
    /\ response.status = 200
    /\ \E i \in 1..Len(response.candidates) : \E k \in 1..Len(Produced(trace)) :
          /\ Produced(trace)[k].at_uri = response.candidates[i].at_uri
          /\ Produced(trace)[k].call > response.candidates[i].call
          /\ Produced(trace)[k].score > response.candidates[i].score

(***************************************************************************)
(* C9: if a generator call raises, primary or infill, the request ends     *)
(* with 502 and no candidates; what earlier generators returned is         *)
(* dropped and no generator is invoked afterwards.                         *)
(***************************************************************************)
C9_FailureAbortsRequest ==
    Raised =>
        /\ pc = "done"
        /\ response = [status |-> 502, candidates |-> <<>>]
        /\ trace[Len(trace)].ev = "raise"

\* the backend raised after an earlier generator had returned candidates
C9_Witness ==
    /\ pc = "done"
    /\ Raised
    /\ trace[Len(trace)] = Raise("backend")
    /\ Produced(trace) # <<>>

(***************************************************************************)
(* C10: if an infill name is supplied and is not registered, the request   *)
(* ends in 404, whether or not the primaries fall short of N, and no       *)
(* generator is invoked before the error (stated for the requests in which *)
(* no generator call fails).                                               *)
(***************************************************************************)
C10_UnregisteredInfillEndsNotFound ==
    (pc = "done" /\ payload.infill # None /\ ~Registered(payload.infill) /\ ~Raised) =>
        /\ response = [status |-> 404, candidates |-> <<>>]
        /\ CallEvents(trace) = <<>>

\* a weight that is a small whole number, and that number
IsWhole(w) == ~w.inf /\ w.exp >= 0 /\ w.exp + BBitLen(w.man) <= 10
WholeWeight(w) == BToInt(BShl(w.man, w.exp))
EqualWeights ==
    \A i, j \in 1..Len(payload.generators) :
        payload.generators[i].weight = payload.generators[j].weight

(***************************************************************************)
(* C11: with raw_i = weight_i / (sum of the weights) * N, the N - sum of   *)
(* floor(raw_i) extra units go one each to the specs with the largest      *)
(* fractional part of raw_i, the earlier spec first among equals, and      *)
(* every other spec gets floor(raw_i).  Stated for whole-number weights,   *)
(* where raw_i is a fraction over the sum of the weights.                  *)
(***************************************************************************)
C11_ExtrasToLargestFractions ==
    (pc = "allocated" /\ \A i \in 1..Len(payload.generators) :
                            IsWhole(payload.generators[i].weight)) =>
        LET n == Len(payload.generators)
            total == payload.num_candidates
            w == [i \in 1..n |-> WholeWeight(payload.generators[i].weight)]
            floors == [i \in 1..n |-> (w[i] * total) \div SumSeq(w)]
            frac == [i \in 1..n |-> (w[i] * total) % SumSeq(w)]
            remainder == total - SumSeq(floors)
            rank(i) == 1 + Cardinality({j \in 1..n :
                              frac[j] > frac[i] \/ (frac[j] = frac[i] /\ j < i)})
        IN  \A i \in 1..n :
                counts[i] = floors[i] + (IF rank(i) <= remainder THEN 1 ELSE 0)

(***************************************************************************)
(* C12: when all specs have the same weight, no two allocated counts       *)
(* differ by more than 1, whatever N and the number of specs.              *)
(***************************************************************************)
C12_EqualWeightsEven ==
    (pc = "allocated" /\ EqualWeights) =>
        \A i, j \in 1..Len(counts) : counts[i] - counts[j] <= 1

\* three specs of one weight share a total that three does not divide
C12_Witness ==
    /\ pc = "allocated"
    /\ EqualWeights
    /\ Len(counts) = 3
    /\ payload.num_candidates % 3 # 0
    /\ \E i, j \in 1..Len(counts) : counts[i] - counts[j] = 1

Keys(cands) == {cands[i].at_uri : i \in 1..Len(cands)}

(***************************************************************************)
(* C13: when no infill is named and the primary generators return fewer    *)
(* than N distinct candidates, the request succeeds and answers with       *)
(* exactly the deduplicated primary candidates, fewer than N.              *)
(***************************************************************************)
C13_ShortWithoutInfillSucceeds ==
    (LoopDone /\ payload.infill = None /\ Cardinality(Keys(all_candidates)) < payload.num_candidates) =>
        /\ pc = "done"
        /\ response.status = 200
        /\ Len(response.candidates) = Cardinality(Keys(all_candidates))
        /\ Keys(response.candidates) = Keys(all_candidates)
        /\ IsSubseq(response.candidates, all_candidates)
        /\ Len(response.candidates) < payload.num_candidates

\* one candidate answers a request for two, a duplicate having been dropped
C13_Witness ==
    /\ pc = "done"
    /\ payload.infill = None
    /\ payload.num_candidates = 2
    /\ Len(all_candidates) >= 2
    /\ response.status = 200
    /\ Len(response.candidates) = 1

(***************************************************************************)
(* C14: a generate request with a non-positive weight, an empty or missing *)
(* generator list or a count outside the allowed range is rejected as a    *)
(* validation failure (422) before any generator is resolved and before    *)
(* any backend call.                                                       *)
(***************************************************************************)
C14_MalformedRejectedFirst ==
    (/\ request # NoRequest
     /\ \/ "generators" \notin DOMAIN request
        \/ request.generators = <<>>
        \/ \E i \in 1..Len(request.generators) : request.generators[i].weight <= 0
        \/ request.num_candidates \notin 1..MaxNumCandidates) =>
        /\ pc = "done"
        /\ response = [status |-> 422, candidates |-> <<>>]
        /\ trace = <<>>

\* a registered generator with weight 0 next to a sound one was turned away
C14_Witness ==
    /\ response.status = 422
    /\ "generators" \in DOMAIN request
    /\ Len(request.generators) = 2
    /\ request.generators[1] = [name |-> "popularity", weight |-> 1]
    /\ request.generators[2] = [name |-> "popularity", weight |-> 0]
    /\ request.num_candidates = 1

Searches(tr) == SelectSeq(tr, LAMBDA e : e.ev = "search")

(***************************************************************************)
(* C15: in the similar-posts operation an embedding text that does not     *)
(* decode, or supplied embeddings of different dimensions, are rejected    *)
(* with 400 before any backend call, also when at_uris are supplied too.   *)
(***************************************************************************)
C15_BadEmbeddingsRejectedFirst ==
    (/\ "embeddings" \in DOMAIN request
     /\ \/ \E i \in 1..Len(request.embeddings) : DecodeRaises(request.embeddings[i])
        \/ \E i, j \in 1..Len(request.embeddings) :
              DecodedDim(request.embeddings[i]) # DecodedDim(request.embeddings[j])) =>
        /\ Searches(trace) = <<>>
        /\ pc = "done"
        /\ response = [status |-> 400, results |-> <<>>]

\* the name of the generator that the k-th generate() call of the request went to
CalledName(k) == CallEvents(trace)[k].name

(***************************************************************************)
(* C18: every candidate a generator produces, and so every candidate of a  *)
(* blended response, carries the name of the generator that produced it.   *)
(***************************************************************************)
C18_CandidatesCarryGeneratorName ==
    response.status = 200 =>
        \A i \in 1..Len(response.candidates) :
            /\ "generator_name" \in DOMAIN response.candidates[i]
            /\ response.candidates[i].generator_name = CalledName(response.candidates[i].call)

\* the answer of the k-th search of generate, when it has come
Answered(k) == Len(trace) >= 2 * k /\ trace[2 * k].ev = "hits"
AnswerOf(k) == trace[2 * k].hits
EmptyResult ==
    [status |-> "returned", generator_name |-> PostSimilarityCandidateGenerator.name,
     candidates |-> <<>>]

(***************************************************************************)
(* C16: for a user without liked posts (the likes search answers with no   *)
(* hit that names a liked post) generate returns an empty result after     *)
(* exactly one search, the likes query: neither the embeddings lookup nor  *)
(* the nearest-neighbour query is issued.                                  *)
(***************************************************************************)
C16_NoLikesOneSearch ==
    (Answered(1) /\ \A i \in 1..Len(AnswerOf(1)) : AnswerOf(1)[i] = None)
        => /\ pc = "done"
           /\ response = EmptyResult
           /\ Searches(trace) = <<LikesSearch(request.user_did)>>

C16_Witness ==
    /\ pc = "done"
    /\ Answered(1) /\ AnswerOf(1) = <<>>
    /\ response = EmptyResult
    /\ Len(Searches(trace)) = 1

(***************************************************************************)
(* C17: when the user has likes but no liked post resolves to a non-empty  *)
(* embedding, generate returns an empty result, raises nothing, and never  *)
(* issues the nearest-neighbour query.                                     *)
(***************************************************************************)
C17_NoEmbeddingsNoKnn ==
    (Answered(2) /\ \A i \in 1..Len(AnswerOf(2)) : AnswerOf(2)[i] = <<>>)
        => /\ pc = "done"
           /\ response = EmptyResult
           /\ ~Raised
           /\ \A i \in 1..Len(trace) :
                 trace[i].ev = "search" => trace[i].index = "likes" \/ trace[i].kind = "terms"

C17_Witness ==
    /\ pc = "done"
    /\ Answered(2) /\ LikedUris(AnswerOf(1)) # <<>>
    /\ AnswerOf(2) # <<>> /\ FoundVectors(AnswerOf(2)) = <<>>
    /\ response = EmptyResult

(***************************************************************************)
(* C19: the nearest-neighbour query of the similarity generator carries    *)
(* the video filter exactly when video_only is true: a video_only flag     *)
(* handed to generate is accepted, and with video_only false (or absent)   *)
(* the filter list of the query is empty.                                  *)
(***************************************************************************)
VideoOnlyAsked == "video_only" \in DOMAIN request /\ request.video_only

C19_VideoFilterIffVideoOnly ==
    /\ "video_only" \in DOMAIN request =>
          ~(\E i \in 1..Len(trace) : trace[i] = Raise("TypeError"))
    /\ \A i \in 1..Len(trace) :
          (trace[i].ev = "search" /\ trace[i].index = "posts" /\ trace[i].kind = "knn")
              => trace[i].filter = IF VideoOnlyAsked THEN <<"contains_video">> ELSE <<>>

\* a candidate without the tag of the call that produced it
Untagged(cands) ==
    [i \in 1..Len(cands) |->
        [f \in (DOMAIN cands[i]) \ {"call"} |-> cands[i][f]]]

(***************************************************************************)
(* C20: the output of PopularityCandidateGenerator.generate does not       *)
(* depend on user_did: on the same backend state, with the same count and  *)
(* video_only, two calls for different users issue the same query and      *)
(* return the same candidates.                                             *)
(***************************************************************************)
C20_PopularityIgnoresUser ==
    /\ \A i, j \in 1..Len(trace) :
          (trace[i].ev = "search" /\ trace[j].ev = "search")
              => trace[i].query = trace[j].query
    /\ (pc = "done" /\ response.status = "returned")
          => Untagged(response.results[1]) = Untagged(response.results[2])

C20_Witness ==
    /\ pc = "done" /\ response.status = "returned"
    /\ request.user_dids[1] # request.user_dids[2]
    /\ Len(response.results[1]) = 2
    /\ Untagged(response.results[1]) = Untagged(response.results[2])

\* a magnitude that a float32 holds exactly
IsFloat32(a) ==
    a.man = <<>> \/ (~a.inf /\ BBitLen(a.man) <= F32MantBits /\ a.exp >= F32MinExp
                           /\ FTop(a) <= F32MaxTop)

\* |d - v| is at most half a unit in the last float32 place of v, and nothing
\* at all when a float32 holds v
Float32Close(v, d) ==
    /\ d.neg = v.neg
    /\ ~d.abs.inf
    /\ IsFloat32(d.abs)
    /\ IsFloat32(v.abs) => d.abs = v.abs
    /\ v.abs.man = <<>> => d.abs.man = <<>>
    /\ v.abs.man # <<>> =>
          LET half == Max2(FTop(v.abs) - F32MantBits, F32MinExp) - 1
              lo == Min2(half, Min2(v.abs.exp, IF d.abs.man = <<>> THEN half ELSE d.abs.exp))
              V == BShl(v.abs.man, v.abs.exp - lo)
              D == IF d.abs.man = <<>> THEN <<>> ELSE BShl(d.abs.man, d.abs.exp - lo)
              H == BShl(<<1>>, half - lo)
          IN  ~BLess(BAdd(D, H, 0), V) /\ ~BLess(BAdd(V, H, 0), D)

\* the round trip of the vector of the request came back as it should
RoundTripped ==
    /\ response.status = "returned"
    /\ Len(response.values) = Len(request.vec)
    /\ \A i \in 1..Len(request.vec) : Float32Close(request.vec[i], response.values[i])

\* |v| is below the midpoint of the largest float32 and 2^128
InFloat32Range(v) == FLess(v.abs, FScaled(2^25 - 1, 103))

(***************************************************************************)
(* C21 as stated: decode(encode(v)) equals v to float32 precision for      *)
(* every finite vector v, including negative, zero and subnormal values    *)
(* and the empty vector.                                                   *)
(***************************************************************************)
C21_RoundTripEveryFinite ==
    ("vec" \in DOMAIN request /\ \A i \in 1..Len(request.vec) : ~request.vec[i].abs.inf)
        => /\ response.status = "returned"
           /\ pc = "decoded" => RoundTripped

(***************************************************************************)
(* C21 amended: decode(encode(v)) equals v to float32 precision for every  *)
(* vector v of finite values of magnitude below 2^128 - 2^103, including   *)
(* negative, zero and subnormal values and the empty vector; for a vector  *)
(* with a finite value of larger magnitude encode raises OverflowError.    *)
(***************************************************************************)
C21_RoundTripInFloat32Range ==
    "vec" \in DOMAIN request =>
        IF \A i \in 1..Len(request.vec) : InFloat32Range(request.vec[i])
        THEN /\ response.status = "returned"
             /\ pc = "decoded" => RoundTripped
        ELSE pc = "encoded" /\ response = [status |-> "raised", cause |-> "OverflowError"]

C21_Witness ==
    /\ pc = "decoded" /\ "vec" \in DOMAIN request /\ RoundTripped
    /\ request.vec = <<Signed(TRUE, FScaled(3, -149)), Signed(FALSE, FScaled(2^25 + 3, 0))>>
    /\ response.values[2].abs = FScaled(2^23 + 1, 2)

(***************************************************************************)
(* C22: decode raises ValueError whenever the bytes the base64 text        *)
(* decodes to are not a multiple of 4 in number, and returns exactly       *)
(* (number of bytes) / 4 values otherwise.                                 *)
(***************************************************************************)
C22_LengthMultipleOfFour ==
    ("b64" \in DOMAIN request
        /\ ~B64Raises([sextets |-> Len(request.b64.chars), pad |-> request.b64.pad]))
        => LET n == (Len(request.b64.chars) * 6) \div 8
           IN  IF n % 4 # 0
               THEN response = [status |-> "raised", cause |-> "ValueError"]
               ELSE response.status = "returned" /\ Len(response.values) = n \div 4

C22_Witness ==
    /\ "b64" \in DOMAIN request /\ Len(request.b64.chars) = 4
    /\ response = [status |-> "raised", cause |-> "ValueError"]

\* every instance handed to register_generator so far, the two built-ins of the
\* import first
RegisterCalls ==
    <<PostSimilarityCandidateGenerator, PopularityCandidateGenerator>>
    \o [i \in 1..Len(trace) |-> trace[i].gen]
RegisteredAs(name) == SelectSeq(RegisterCalls, LAMBDA gen : gen.name = name)
ListedNames == list_generators([i \in 1..Len(RegisterCalls) |-> RegisterCalls[i].name])

(***************************************************************************)
(* C23: after any sequence of register_generator calls, get_generator(name)*)
(* returns the instance most recently registered under that name,          *)
(* get_generator of a name never registered returns None and does not      *)
(* fail, and list_generators returns exactly the registered names, each    *)
(* once.                                                                   *)
(***************************************************************************)
C23_RegistryLastWins ==
    /\ \A name \in {gen.name : gen \in GeneratorInstances} \cup {"nonexistent"} :
          get_generator(name) =
              IF RegisteredAs(name) = <<>> THEN NoGenerator
              ELSE RegisteredAs(name)[Len(RegisteredAs(name))]
    /\ \A i, j \in 1..Len(ListedNames) : ListedNames[i] = ListedNames[j] => i = j
    /\ {ListedNames[i] : i \in 1..Len(ListedNames)} = DOMAIN registry
    /\ DOMAIN registry = {RegisterCalls[i].name : i \in 1..Len(RegisterCalls)}

C23_Witness ==
    /\ Len(RegisteredAs("popularity")) = 3
    /\ RegisteredAs("popularity")[2] # RegisteredAs("popularity")[3]
    /\ get_generator("popularity") = RegisteredAs("popularity")[3]
    /\ get_generator("custom") = NoGenerator
    /\ Len(ListedNames) = 2

\* what the handler answers when it runs alone and the backend gives it the
\* answers of tr: 502 after a failed call, 404 after a failed lookup, else the
\* first N of the deduplicated candidates in the order they were returned
AloneOutcome(p, tr) ==
    IF tr[Len(tr)].ev = "raise" THEN [status |-> 502, candidates |-> <<>>]
    ELSE IF tr[Len(tr)].ev = "lookup" THEN [status |-> 404, candidates |-> <<>>]
    ELSE [status |-> 200,
          candidates |-> Slice(_dedup_candidates(Produced(tr)), p.num_candidates)]

\* the frame holds what its own request was given and nothing else
FrameAlone(f) ==
    /\ f.pc = "primary" => f.all_candidates = Produced(f.trace)
    /\ f.pc = "done" => f.response = AloneOutcome(f.payload, f.trace)

(***************************************************************************)
(* C24: under any interleaving of two generate requests, each suspended at *)
(* its generator calls, no request modifies the registry and the requests  *)
(* share no other state: the outcome of each equals the outcome it has     *)
(* when run alone against the same backend answers.                        *)
(***************************************************************************)
C24_RequestsIsolated ==
    /\ registry = BuiltinRegistry
    /\ request # NoRequest => FrameAlone(CurrentFrame) /\ FrameAlone(request.parked)

\* both requests made two calls, both were answered, with different candidates
C24_Witness ==
    /\ request # NoRequest
    /\ pc = "done" /\ request.parked.pc = "done"
    /\ response.status = 200 /\ request.parked.response.status = 200
    /\ Len(CallEvents(trace)) = 2 /\ Len(CallEvents(request.parked.trace)) = 2
    /\ response.candidates # <<>> /\ request.parked.response.candidates # <<>>
    /\ Keys(response.candidates) \cap Keys(request.parked.response.candidates) = {}

\* a < b and a <= b on scores num / 2^shift
ScoreLess(a, b) == a.num * 2^b.shift < b.num * 2^a.shift
ScoreLeq(a, b) == a.num * 2^b.shift <= b.num * 2^a.shift
Likes(post) == IF "like_count" \in DOMAIN post THEN post.like_count ELSE LIKE_MISSING

(***************************************************************************)
(* C25: the popularity score is strictly decreasing in age beyond the      *)
(* offset window for a fixed like_count and non-decreasing in like_count   *)
(* for a fixed age; a post within the offset of now has recency factor 1,  *)
(* and a post with zero likes keeps a positive score.                      *)
(***************************************************************************)
C25_ScoreMonotone ==
    "posts" \in DOMAIN request =>
        \A i, j \in 1..2 :
            LET p == request.posts[i]
                q == request.posts[j]
                sp == response.scores[i]
                sq == response.scores[j]
            IN  /\ (Likes(p) = Likes(q) /\ DECAY_OFFSET <= p.age /\ p.age < q.age)
                       => ScoreLess(sq, sp)
                /\ (p.age = q.age /\ Likes(p) <= Likes(q)) => ScoreLeq(sp, sq)
                /\ p.age <= DECAY_OFFSET => sp.recency = [num |-> 1, shift |-> 0]
                /\ Likes(p) = 0 => sp.num > 0

(***************************************************************************)
(* C26: the generate operation is reached only when an API key is          *)
(* configured and the X-API-Key header of the request equals it: with a    *)
(* missing or wrong header, or with no API key configured (unset or        *)
(* empty), the request is answered 401 and no generator is looked up or    *)
(* invoked.                                                                *)
(***************************************************************************)
C26_ApiKeyRequired ==
    "x_api_key" \in DOMAIN request =>
        IF request.API_KEY \in {None, ""} \/ request.x_api_key # request.API_KEY
        THEN pc = "done" /\ response = [status |-> 401, candidates |-> <<>>] /\ trace = <<>>
        ELSE response.status # 401

\* a well-formed request for the popularity generator with a wrong key
C26_Witness ==
    /\ "x_api_key" \in DOMAIN request
    /\ request.API_KEY = "secret" /\ request.x_api_key = "wrong"
    /\ Validates(request.body)
    /\ request.body.generators[1].name = "popularity"
    /\ response.status = 401 /\ trace = <<>>

\* the calls of the for-loop over the specs, and what that loop is to call: the
\* specs with a positive count, in spec order, each with its count
PrimaryCalls == SelectSeq(trace, LAMBDA e : e.ev = "call" /\ e.phase = "primary")
RECURSIVE ToInvoke(_, _, _)
ToInvoke(specs, cnts, i) ==
    IF i > Len(specs) THEN <<>>
    ELSE (IF cnts[i] > 0 THEN <<[name |-> specs[i].name, count |-> cnts[i]]>> ELSE <<>>)
         \o ToInvoke(specs, cnts, i + 1)
ReturnEvents == SelectSeq(trace, LAMBDA e : e.ev = "return")

Nulls(cands) == SelectSeq(cands, LAMBDA c : c.at_uri = None)

(***************************************************************************)
(* C28: deduplication takes a missing at_uri (None) for one shared         *)
(* identity: after dedup, and so in every response, at most one candidate  *)
(* has no at_uri, and it is the first such candidate in concatenation      *)
(* order.                                                                  *)
(***************************************************************************)
C28_OneNullIdentity ==
    /\ Len(Nulls(deduped)) <= 1
    /\ Nulls(deduped) # <<>> => Nulls(deduped)[1] = Nulls(Produced(trace))[1]
    /\ response.status = 200 =>
          /\ Len(Nulls(response.candidates)) <= 1
          /\ Nulls(response.candidates) # <<>> =>
                Nulls(response.candidates)[1] = Nulls(Produced(trace))[1]

\* two calls each returned a candidate without at_uri, the response has one
C28_Witness ==
    /\ response.status = 200
    /\ Len(Nulls(Produced(trace))) >= 2
    /\ Nulls(Produced(trace))[1].call # Nulls(Produced(trace))[2].call
    /\ Len(Nulls(response.candidates)) = 1

\* average_vectors was called: its result went into the knn search, or it
\* raised
Averaged ==
    \E i \in 1..Len(trace) :
        \/ trace[i].ev = "search" /\ trace[i].index = "posts" /\ trace[i].kind = "knn"
        \/ trace[i] = Raise("ValueError")
        \/ trace[i] = Raise("IndexError")

(***************************************************************************)
(* C29: average_vectors raises on an empty list of vectors, and generate   *)
(* never meets that error: on every path through generate average_vectors *)
(* is called with a non-empty list only.                                   *)
(***************************************************************************)
C29_AverageNeverOnEmpty ==
    /\ AverageRaises(<<>>)
    /\ \A i \in 1..Len(trace) : trace[i] # Raise("ValueError")
    /\ Averaged => Answered(2) /\ FoundVectors(AnswerOf(2)) # <<>>

\* the average of one vector went into the knn search after a liked post
\* without embedding was dropped
C29_Witness ==
    /\ Averaged /\ Answered(2)
    /\ Len(AnswerOf(2)) = 2 /\ Len(FoundVectors(AnswerOf(2))) = 1
    /\ pc = "knn"

\* the infill generator was called and has returned
InfillRan == pc = "done" /\ response.status = 200 /\ InfillCalls # <<>>
\* what it returned: the last return of the trace
InfillResult == ReturnEvents[Len(ReturnEvents)].candidates

(***************************************************************************)
(* C30: the infill step never removes, replaces or reorders a candidate    *)
(* kept from the primary generators: when infill has run, the deduplicated *)
(* primary list is a prefix of the merged list, only infill candidates     *)
(* follow it, and the response is the first N of dedup(primary results in  *)
(* spec order followed by the infill results).                             *)
(***************************************************************************)
C30_InfillKeepsPrimaries ==
    InfillRan =>
        LET primary == _dedup_candidates(all_candidates)
        IN  /\ Len(primary) <= Len(deduped)
            /\ SubSeq(deduped, 1, Len(primary)) = primary
            /\ \A i \in (Len(primary) + 1)..Len(deduped) :
                  /\ deduped[i].call = Len(CallEvents(trace))
                  /\ \E k \in 1..Len(InfillResult) : InfillResult[k] = deduped[i]
            /\ response.candidates =
                  Slice(_dedup_candidates(all_candidates \o InfillResult),
                        payload.num_candidates)

\* the infill returned a post the primaries had found and a new one: the
\* response holds the primary's copy first and the new post after it
C30_Witness ==
    /\ InfillRan
    /\ all_candidates # <<>>
    /\ Len(InfillResult) = 2
    /\ InfillResult[1].at_uri = all_candidates[1].at_uri
    /\ Len(response.candidates) = 2
    /\ response.candidates[1] = all_candidates[1]
    /\ response.candidates[2] = InfillResult[2]

====
